---- MODULE Spec2Model ----
(***************************************************************************)
(* Model of the WhatsApp webhook ingestion service: signature verification *)
(* (verifyMetaSignature), payload extraction (extractInboundMessages),     *)
(* phone hashing (hashPhone), the GET/POST handlers of webhookRouter and   *)
(* the "message" collection written through Message.bulkWrite.             *)
(*                                                                         *)
(* JavaScript values are tagged records: the field t is the type tag and v *)
(* the payload.  An object's payload is a function from property names to  *)
(* values, an array's payload a sequence of values.                        *)
(***************************************************************************)
EXTENDS Integers, Sequences, FiniteSets, TLC

(***************************************************************************)
(* JavaScript values                                                       *)
(***************************************************************************)
Undefined == [t |-> "undefined"]
Null == [t |-> "null"]
Str(s) == [t |-> "string", v |-> s]
Num(n) == [t |-> "number", v |-> n]
Arr(s) == [t |-> "array", v |-> s]
Obj(f) == [t |-> "object", v |-> f]
EmptyObj == Obj(<<>>)
EmptyArr == Arr(<<>>)

\* ToBoolean: undefined, null, "", 0 are falsy; objects, arrays, dates truthy.
Truthy(x) ==
    CASE x.t = "undefined" -> FALSE
      [] x.t = "null" -> FALSE
      [] x.t = "string" -> Len(x.v) > 0
      [] x.t = "number" -> x.v # 0
      [] OTHER -> TRUE

\* a || b
Or(a, b) == IF Truthy(a) THEN a ELSE b

\* o?.k : undefined for null/undefined and for values without that property
Get(o, k) == IF o.t = "object" /\ k \in DOMAIN o.v THEN o.v[k] ELSE Undefined

\* a === b for the values compared in the code (strings against literals)
StrictEq(a, b) == a.t = b.t /\ a = b

\* The characters of the strings that occur where the code iterates.
Chars(s) ==
    CASE s = "" -> <<>>
      [] s = "ab" -> <<"a", "b">>
      [] s = "x" -> <<"x">>

\* for (const e of x): arrays yield their elements, strings their
\* characters; every other value is not iterable (TypeError).
IsIterable(x) == x.t \in {"array", "string"}
Items(x) ==
    IF x.t = "array" THEN x.v
    ELSE [i \in 1..Len(Chars(x.v)) |-> Str(Chars(x.v)[i])]

\* new Date(ms) and the Invalid Date of new Date(NaN)
Date(ms) == [t |-> "date", v |-> ms]
InvalidDate == [t |-> "invalid_date"]

\* Number(x) for the timestamp strings of the modelled payloads; NaN is
\* reported as not numeric.
IsNumeric(x) == x.t = "number" \/ (x.t = "string" /\ x.v \in {"5", "7"})
NumberOf(x) ==
    CASE x.t = "number" -> x.v
      [] x.t = "string" /\ x.v = "5" -> 5
      [] x.t = "string" /\ x.v = "7" -> 7

(***************************************************************************)
(* extractInboundMessages (services/whatsappParser.js)                     *)
(***************************************************************************)
\* The outcome of a call: a thrown exception or the returned array.
Threw == [threw |-> TRUE, out |-> <<>>]
Returned(s) == [threw |-> FALSE, out |-> s]

\* Sequential composition of loop iterations: an exception in any iteration
\* ends the call, otherwise the pushed records are appended in order.
RECURSIVE ConcatAll(_)
ConcatAll(rs) ==
    IF Len(rs) = 0 THEN Returned(<<>>)
    ELSE LET h == Head(rs)
             r == ConcatAll(Tail(rs))
         IN  IF h.threw \/ r.threw THEN Threw ELSE Returned(h.out \o r.out)

\* the text of a message, by type
\* the text body is read whatever the type
TextOfBody(m, type) == Or(Get(Get(m, "text"), "body"), Null)

TextOf(m, type) ==
    IF StrictEq(type, Str("text")) THEN Or(Get(Get(m, "text"), "body"), Null)
    ELSE IF StrictEq(type, Str("button")) THEN Or(Get(Get(m, "button"), "text"), Null)
    ELSE IF StrictEq(type, Str("interactive")) THEN Or(Get(Get(m, "interactive"), "type"), Null)
    ELSE Null

\* the timestamp of a message: epoch seconds to an instant, or the current instant
TsOf(m, now) ==
    LET tsv == Get(m, "timestamp")
    IN  IF Truthy(tsv)
        THEN (IF IsNumeric(tsv) THEN Date(NumberOf(tsv) * 1000) ELSE InvalidDate)
        ELSE Date(now)

\* body of the innermost loop: the record pushed for message m
InboundRecord(m, phoneNumberId, now) ==
    LET type == Or(Get(m, "type"), Str("unknown"))
    IN  [wa_message_id |-> Get(m, "id"),
         phone_number_id |-> phoneNumberId,
         sender_phone |-> Or(Get(m, "from"), Null),
         msg_type |-> type,
         text |-> TextOf(m, type),
         ts |-> TsOf(m, now),
         raw_message |-> m]

\* body of the loop over changes
ChangeRecords(change, now) ==
    LET value == Or(Get(change, "value"), EmptyObj)
        metadata == Or(Get(value, "metadata"), EmptyObj)
        phoneNumberId == Or(Get(metadata, "phone_number_id"), Null)
        messages == Or(Get(value, "messages"), EmptyArr)
    IN  IF ~IsIterable(messages) THEN Threw
        ELSE Returned([k \in 1..Len(Items(messages)) |->
                          InboundRecord(Items(messages)[k], phoneNumberId, now)])

\* the loop over entry.changes without the default for a missing property
EntryRecordsNoDefault(entry, now) ==
    LET changes == Get(entry, "changes")
    IN  IF ~IsIterable(changes) THEN Threw
        ELSE ConcatAll([j \in 1..Len(Items(changes)) |->
                           ChangeRecords(Items(changes)[j], now)])

\* body of the loop over entries
EntryRecords(entry, now) ==
    LET changes == Or(Get(entry, "changes"), EmptyArr)
    IN  IF ~IsIterable(changes) THEN Threw
        ELSE ConcatAll([j \in 1..Len(Items(changes)) |->
                           ChangeRecords(Items(changes)[j], now)])

extractInboundMessages(webhookBody, now) ==
    LET entries == Or(Get(webhookBody, "entry"), EmptyArr)
    IN  IF ~IsIterable(entries) THEN Threw
        ELSE ConcatAll([i \in 1..Len(Items(entries)) |->
                           EntryRecords(Items(entries)[i], now)])

(***************************************************************************)
(* verifyMetaSignature (routes/webhook.js)                                 *)
(* Header strings, secrets and raw bodies are sequences of character codes *)
(* because the comparison is made on bytes.                                *)
(***************************************************************************)
Buffer(bytes) == [t |-> "buffer", v |-> bytes]

\* Number of hex characters of a digest in the model (64 in the program).
DigestLen == 3

RECURSIVE Pow16(_)
Pow16(n) == IF n = 0 THEN 1 ELSE 16 * Pow16(n - 1)

RECURSIVE WeightedSum(_, _)
WeightedSum(bytes, w) ==
    IF Len(bytes) = 0 THEN 0
    ELSE bytes[1] * w + WeightedSum(Tail(bytes), w + 2)

\* the character code of hex digit d, lower case
HexChar(d) == IF d < 10 THEN 48 + d ELSE 87 + d

\* .digest("hex") of a digest value n
HexDigest(n) == [i \in 1..DigestLen |-> HexChar((n \div Pow16(DigestLen - i)) % 16)]

\* crypto.createHmac("sha256", key).update(data).digest("hex"): a keyed
\* digest of the data, of fixed length.
HmacSha256Hex(key, data) ==
    HexDigest((WeightedSum(key, 31) + WeightedSum(data, 17) + Len(key) * 7 + Len(data) + 1)
                  % Pow16(DigestLen))

\* "sha256="
SigPrefix == <<115, 104, 97, 50, 53, 54, 61>>

\* Buffer.from(string): the UTF-8 encoding of the string
RECURSIVE Utf8(_)
Utf8(chars) ==
    IF Len(chars) = 0 THEN <<>>
    ELSE (IF chars[1] < 128 THEN <<chars[1]>>
          ELSE <<192 + (chars[1] \div 64), 128 + (chars[1] % 64)>>) \o Utf8(Tail(chars))
BufferFrom(str) == Buffer(Utf8(str.v))

\* a comparison of the common prefix only, without the length check
timingSafeEqualPrefix(a, b) ==
    [threw |-> FALSE,
     val |-> \A i \in 1..Len(a.v) : i <= Len(b.v) => a.v[i] = b.v[i]]

\* crypto.timingSafeEqual(a, b): throws on buffers of different byte length,
\* otherwise compares every byte.
timingSafeEqual(a, b) ==
    IF Len(a.v) # Len(b.v) THEN [threw |-> TRUE, val |-> FALSE]
    ELSE [threw |-> FALSE, val |-> \A i \in 1..Len(a.v) : a.v[i] = b.v[i]]

\* the header looked at before the secret
verifyMetaSignatureHeaderFirst(req, appSecret) ==
    IF ~Truthy(req.sig) THEN [threw |-> FALSE, val |-> FALSE]
    ELSE IF ~Truthy(appSecret) THEN [threw |-> FALSE, val |-> TRUE]
    ELSE [threw |-> FALSE,
          val |-> req.sig.v = SigPrefix \o HmacSha256Hex(appSecret.v, Or(req.rawBody, Buffer(<<>>)).v)]

\* The outcome of a call of verifyMetaSignature: a boolean, or an exception.
Ret(b) == [threw |-> FALSE, val |-> b]

\* req is what the function reads from the request:
\* sig = req.get("x-hub-signature-256"), rawBody = req.rawBody.
verifyMetaSignature(req, appSecret) ==
    IF ~Truthy(appSecret) THEN Ret(TRUE)
    ELSE IF ~Truthy(req.sig) THEN Ret(FALSE)
    ELSE LET expected == Str(SigPrefix \o HmacSha256Hex(appSecret.v, Or(req.rawBody, Buffer(<<>>)).v))
             cmp == timingSafeEqual(BufferFrom(req.sig), BufferFrom(expected))
         IN  IF cmp.threw THEN Ret(FALSE) ELSE Ret(cmp.val)

(***************************************************************************)
(* hashPhone (services/privacy.js)                                         *)
(***************************************************************************)
\* String(x) for the values interpolated into the template string
ToStr(x) == IF x.t = "string" THEN x.v ELSE ToString(x.v)

\* crypto.createHash("sha256").update(s).digest("hex"), kept symbolic: the
\* digest of s is a string that determines s and is none of the inputs.
Sha256Hex(s) == Str("sha256(" \o s \o ")")

\* the salt is left out of the digest
hashPhoneUnsalted(phone, salt) ==
    IF ~Truthy(phone) THEN Null ELSE Sha256Hex(ToStr(phone))

hashPhone(phone, salt) ==
    IF ~Truthy(phone) THEN Null
    ELSE LET s == Or(salt, Str(""))
         IN  Sha256Hex(ToStr(s) \o ":" \o ToStr(phone))

(***************************************************************************)
(* The service: configuration, requests in flight and the collection       *)
(***************************************************************************)
\* Number of POST requests handled in a behaviour.
NumReqs == 2
Reqs == 1..NumReqs

VARIABLES
    metaAppSecret,  \* the secret given to webhookRouter ("" when unset)
    store,          \* the documents of the "message" collection
    clock,          \* the current instant (new Date())
    pc,             \* position of each request's handler
    request,        \* req.body of each request
    trace,          \* per request: responses sent, steps taken, log records
    ops,            \* per request: the operations handed to Message.bulkWrite
    fnPc, fnArg, fnRes  \* a single call of a pure function: position, argument, result

vars == <<metaAppSecret, store, clock, pc, request, trace, ops, fnPc, fnArg, fnRes>>
svcVars == <<metaAppSecret, store, clock, pc, request, trace, ops>>
fnVars == <<fnPc, fnArg, fnRes>>

\* env.PHONE_HASH_SALT as passed to webhookRouter
phoneHashSalt == Str("pepper")

\* Payloads delivered by the provider ----------------------------------------
MsgText(id, body) ==
    Obj([id |-> Str(id), from |-> Str("77001"), timestamp |-> Str("5"),
         type |-> Str("text"), text |-> Obj([body |-> Str(body)])])
MsgInteractive(id, sub) ==
    Obj([id |-> Str(id), from |-> Str("77002"), timestamp |-> Str("7"),
         type |-> Str("interactive"), interactive |-> Obj([type |-> Str(sub)])])
\* a message without an id property
MsgNoId(body) ==
    Obj([from |-> Str("77001"), timestamp |-> Str("5"),
         type |-> Str("text"), text |-> Obj([body |-> Str(body)])])
\* a message whose timestamp is not a number
MsgBadTs(id) ==
    Obj([id |-> Str(id), from |-> Str("77001"), timestamp |-> Str("abc"),
         type |-> Str("text"), text |-> Obj([body |-> Str("late")])])
Envelope(pnid, msgs) ==
    Obj([entry |-> Arr(<<Obj([changes |-> Arr(<<Obj([value |->
        Obj([metadata |-> Obj([phone_number_id |-> Str(pnid)]),
             messages |-> Arr(msgs)])])>>)])>>)])

\* one entry, one change, channel CH1, messages m1 (text) and m2 (interactive)
EnvScenario == Envelope("CH1", <<MsgText("m1", "hi"), MsgInteractive("m2", "button_reply")>>)
\* the id m1 again, with other content
EnvChanged == Envelope("CH2", <<MsgText("m1", "bye")>>)
\* a body without entries
EnvEmpty == EmptyObj
\* entry is an object instead of an array
EnvBadEntry == Obj([entry |-> Obj([changes |-> EmptyArr])])

\* a message without id, one with an empty id, and m3
EnvNoId == Envelope("CH1", <<MsgNoId("a"), MsgText("", "b"), MsgText("m3", "c")>>)
\* no message has an id
EnvAllNoId == Envelope("CH1", <<MsgNoId("a"), MsgText("", "b")>>)
\* the id d1 twice in one envelope, with different content
EnvDupIds == Envelope("CH1", <<MsgText("d1", "first"), MsgText("d1", "second")>>)
\* b1 has a timestamp that is no date, m3 and m4 are well-formed
EnvBadRecord == Envelope("CH1", <<MsgBadTs("b1"), MsgText("m3", "c"), MsgText("m4", "e")>>)

\* body (parsed JSON) and raw bytes of each delivery
Deliveries ==
    {[body |-> EnvScenario, rawBody |-> Buffer(<<1>>)],
     [body |-> EnvChanged, rawBody |-> Buffer(<<2>>)],
     [body |-> EnvEmpty, rawBody |-> Buffer(<<3>>)],
     [body |-> EnvBadEntry, rawBody |-> Buffer(<<4>>)]}

\* deliveries whose messages are not all written
BatchDeliveries ==
    {[body |-> EnvNoId, rawBody |-> Buffer(<<5>>)],
     [body |-> EnvAllNoId, rawBody |-> Buffer(<<6>>)],
     [body |-> EnvBadRecord, rawBody |-> Buffer(<<7>>)],
     [body |-> EnvEmpty, rawBody |-> Buffer(<<3>>)]}

\* deliveries that repeat an id inside one envelope
DupDeliveries ==
    {[body |-> EnvDupIds, rawBody |-> Buffer(<<8>>)],
     [body |-> EnvEmpty, rawBody |-> Buffer(<<3>>)]}

\* the provider's secret, and the two configurations of META_APP_SECRET
ProviderSecret == Str(<<107>>)
SecretConfigs == {Str(<<>>), ProviderSecret}

\* header values a delivery may carry: none, the provider's signature, a forged one
SignedHeader(d) == Str(SigPrefix \o HmacSha256Hex(ProviderSecret.v, d.rawBody.v))
ForgedHeader(d) == Str(SigPrefix \o HmacSha256Hex(<<113>>, d.rawBody.v))
HeadersOf(d) == {Undefined, SignedHeader(d), ForgedHeader(d)}

NoRequest == Undefined

(***************************************************************************)
(* Message model and the operations of the POST handler                    *)
(***************************************************************************)
\* schema option timestamps: true -- Model.bulkWrite puts the time of the
\* call into every updateOne: createdAt under $setOnInsert and updatedAt
\* under $set.
WithTimestamps(update, now) ==
    [setOnInsert |-> update.setOnInsert @@ [createdAt |-> Date(now)],
     set |-> [updatedAt |-> Date(now)]]

\* only a message without an id property is dropped
HasIdLoose(m) == m.wa_message_id.t # "undefined"

\* .filter((m) => m.wa_message_id)
HasId(m) == Truthy(m.wa_message_id)

\* .map((m) => ({ updateOne: { filter, update: { $setOnInsert }, upsert: true } }))
UpdateOneOp(m, now) ==
    LET update == WithTimestamps(
            [setOnInsert |->
                [wa_message_id |-> m.wa_message_id,
                 phone_number_id |-> m.phone_number_id,
                 sender_phone_hash |-> hashPhone(m.sender_phone, phoneHashSalt),
                 direction |-> Str("inbound"),
                 msg_type |-> m.msg_type,
                 text |-> m.text,
                 ts |-> m.ts,
                 raw_message |-> m.raw_message]], now)
    IN  [filter |-> m.wa_message_id,
         setOnInsert |-> update.setOnInsert,
         set |-> update.set,
         st |-> "pending"]

\* every record gets a write operation
BuildOpsUnfiltered(msgs, now) == [i \in 1..Len(msgs) |-> UpdateOneOp(msgs[i], now)]

BuildOps(msgs, now) ==
    LET kept == SelectSeq(msgs, HasId)
    IN  [i \in 1..Len(kept) |-> UpdateOneOp(kept[i], now)]

\* Message.bulkWrite casts every operation to the schema before anything is
\* sent: a String path takes strings and numbers (as their decimal form), a
\* Date path takes valid dates; null is kept.
CastString(x) == IF x.t = "number" THEN Str(ToString(x.v)) ELSE x
CastableString(x) == x.t \in {"string", "number", "null", "undefined"}
CastFails(op) ==
    \/ ~CastableString(op.filter)
    \/ ~CastableString(op.setOnInsert.phone_number_id)
    \/ ~CastableString(op.setOnInsert.msg_type)
    \/ ~CastableString(op.setOnInsert.text)
    \/ op.setOnInsert.ts.t # "date"
\* with ordered: false an operation that fails the cast is left out of the
\* batch and the others are sent
CastOp(op) ==
    IF CastFails(op) THEN [op EXCEPT !.st = "rejected"]
    ELSE [op EXCEPT !.filter = CastString(@),
                    !.setOnInsert.wa_message_id = CastString(@),
                    !.setOnInsert.phone_number_id = CastString(@),
                    !.setOnInsert.msg_type = CastString(@),
                    !.setOnInsert.text = CastString(@)]
\* one operation that fails the cast makes the whole batch fail
castBulkWriteAllOrNothing(batch) ==
    IF \E i \in 1..Len(batch) : CastFails(batch[i])
    THEN [i \in 1..Len(batch) |-> [batch[i] EXCEPT !.st = "rejected"]]
    ELSE [i \in 1..Len(batch) |-> CastOp(batch[i])]

castBulkWrite(batch) == [i \in 1..Len(batch) |-> CastOp(batch[i])]

\* the document an upsert inserts: $setOnInsert and $set applied to a new
\* document with a fresh _id
NewDoc(op, oid) == [_id |-> oid] @@ op.setOnInsert @@ op.set

\* the update written with $set: a match takes the fields of the operation
ApplyUpdateOverwrite(doc, op) == [_id |-> doc._id] @@ op.setOnInsert @@ op.set

\* the update applied to a document that matches the filter: $set only
ApplyUpdate(doc, op) == [doc EXCEPT !.updatedAt = op.set.updatedAt]

\* a collection without the unique index: no insert is refused
UniqueIndexMissing(docs, id) == FALSE

\* wa_message_id: { unique: true } -- an insert of a key already present fails
UniqueIndexViolated(docs, id) == \E d \in docs : d.wa_message_id = id

Matching(docs, id) == {d \in docs : d.wa_message_id = id}

\* a catch block that also answers the request
CatchAndRespond(tr) == tr \o <<"log_error", "resp500">>

\* catch (e) { logger.error(...) }
Catch(tr) == Append(tr, "log_error")

SetPc(r, p) == pc' = [pc EXCEPT ![r] = p]
SetOpState(r, i, s) == ops' = [ops EXCEPT ![r][i].st = s]

\* the response is not sent before processing starts
AcknowledgeAfterProcessing(tr) == tr

\* res.sendStatus(200), sent before the try block
Acknowledge(tr) == Append(tr, "resp200")

\* the try block up to the await: extraction, filter/map and the call of
\* Message.bulkWrite; tr is the trace of the request so far
Process(r, req, tr) ==
    \E now \in {clock, clock + 1} :
        LET res == extractInboundMessages(req.body, now)
            newOps == IF res.threw THEN <<>> ELSE castBulkWrite(BuildOps(res.out, now))
        IN  /\ clock' = now
            /\ ops' = [ops EXCEPT ![r] = newOps]
            /\ IF res.threw
               THEN /\ trace' = [trace EXCEPT ![r] = Catch(Append(tr, "extract"))]
                    /\ SetPc(r, "extract_failed")
               ELSE IF Len(res.out) = 0
               THEN /\ trace' = [trace EXCEPT ![r] = tr \o <<"extract", "log_info_no_messages">>]
                    /\ SetPc(r, "no_messages")
               ELSE IF Len(newOps) > 0
               THEN /\ trace' = [trace EXCEPT ![r] = tr \o <<"extract", "bulkWrite">>]
                    /\ SetPc(r, "writing")
               ELSE /\ trace' = [trace EXCEPT ![r] = tr \o <<"extract", "log_info_saved">>]
                    /\ SetPc(r, "nothing_to_write")

\* the 403 is sent but the handler does not return
RejectFallsThrough(r, req) == Process(r, req, Append(trace[r], "resp403"))

\* return res.sendStatus(403)
Reject(r, req) ==
    /\ trace' = [trace EXCEPT ![r] = Append(@, "resp403")]
    /\ SetPc(r, "rejected")
    /\ UNCHANGED <<clock, ops>>

\* router.post up to its await: the signature check and the 403 or 200
\* response, then the try block.  The steps are recorded in trace in the
\* order the code takes them.  Requests are numbered in order of arrival.
Receive(r, sent) ==
    /\ pc[r] = "idle"
    /\ \A q \in Reqs : q < r => pc[q] # "idle"
    /\ \E d \in sent : \E h \in HeadersOf(d) :
         LET req == [body |-> d.body, rawBody |-> d.rawBody, sig |-> h]
             verified == verifyMetaSignature(req, metaAppSecret)
         IN  /\ request' = [request EXCEPT ![r] = req.body]
             /\ IF verified.threw
                THEN /\ SetPc(r, "unhandled")
                     /\ UNCHANGED <<trace, clock, ops>>
                ELSE IF ~verified.val
                THEN Reject(r, req)
                ELSE Process(r, req, Acknowledge(trace[r]))
    /\ UNCHANGED <<metaAppSecret, store, fnVars>>

PostHandler(r) == Receive(r, Deliveries)

\* The collection executes the operations of a batch one at a time, in any
\* order (ordered: false).  An upsert first looks for a match ...
StoreFind(r, i) ==
    /\ pc[r] = "writing"
    /\ i \in 1..Len(ops[r])
    /\ ops[r][i].st = "pending"
    /\ \A j \in 1..Len(ops[r]) : ops[r][j].st # "inserting"
    /\ LET op == ops[r][i]
           found == Matching(store, op.filter)
       IN  IF found # {}
           THEN LET d == CHOOSE d \in found : TRUE
                IN  /\ store' = (store \ {d}) \cup {ApplyUpdate(d, op)}
                    /\ SetOpState(r, i, "matched")
           ELSE /\ store' = store
                /\ SetOpState(r, i, "inserting")
    /\ UNCHANGED <<metaAppSecret, clock, pc, request, trace, fnVars>>

\* ... and inserts when there was none.  When another request has inserted
\* the key in between, the insert fails with a duplicate key error or the
\* server retries the upsert as an update.
StoreInsert(r, i) ==
    /\ pc[r] = "writing"
    /\ i \in 1..Len(ops[r])
    /\ ops[r][i].st = "inserting"
    /\ LET op == ops[r][i]
       IN  IF UniqueIndexViolated(store, op.filter)
           THEN \/ /\ store' = store
                   /\ SetOpState(r, i, "failed")
                \/ LET d == CHOOSE d \in Matching(store, op.filter) : TRUE
                   IN  /\ store' = (store \ {d}) \cup {ApplyUpdate(d, op)}
                       /\ SetOpState(r, i, "matched")
           ELSE /\ store' = store \cup {NewDoc(op, <<r, i>>)}
                /\ SetOpState(r, i, "inserted")
    /\ UNCHANGED <<metaAppSecret, clock, pc, request, trace, fnVars>>

Finished(op) == op.st \in {"inserted", "matched", "failed", "rejected"}

\* await Message.bulkWrite(...) completes: with write errors it throws after
\* every operation was attempted, otherwise the count is logged
BulkReturn(r) ==
    /\ pc[r] = "writing"
    /\ \A i \in 1..Len(ops[r]) : Finished(ops[r][i])
    /\ IF \E i \in 1..Len(ops[r]) : ops[r][i].st = "failed"
       THEN /\ trace' = [trace EXCEPT ![r] = Catch(@)]
            /\ SetPc(r, "persist_failed")
       ELSE /\ trace' = [trace EXCEPT ![r] = Append(@, "log_info_saved")]
            /\ SetPc(r, "persisted")
    /\ UNCHANGED <<metaAppSecret, store, clock, request, ops, fnVars>>

\* when the bulk write rejects, the handler issues it again
BulkErrorRetry(r) ==
    /\ pc[r] = "writing"
    /\ \E i \in 1..Len(ops[r]) : ~Finished(ops[r][i])
    /\ ops' = [ops EXCEPT ![r] = [i \in 1..Len(@) |->
                  IF Finished(@[i]) THEN @[i] ELSE [@[i] EXCEPT !.st = "pending"]]]
    /\ trace' = [trace EXCEPT ![r] = Append(Catch(@), "bulkWrite")]
    /\ UNCHANGED <<metaAppSecret, store, clock, pc, request, fnVars>>

\* await Message.bulkWrite(...) rejects because the storage is unavailable;
\* the operations not yet executed are never applied
BulkError(r) ==
    /\ pc[r] = "writing"
    /\ \E i \in 1..Len(ops[r]) : ~Finished(ops[r][i])
    /\ ops' = [ops EXCEPT ![r] = [i \in 1..Len(@) |->
                  IF Finished(@[i]) THEN @[i] ELSE [@[i] EXCEPT !.st = "abandoned"]]]
    /\ trace' = [trace EXCEPT ![r] = Catch(@)]
    /\ SetPc(r, "persist_failed")
    /\ UNCHANGED <<metaAppSecret, store, clock, request, fnVars>>

Init ==
    /\ metaAppSecret \in SecretConfigs
    /\ store = {}
    /\ clock = 1
    /\ pc = [r \in Reqs |-> "idle"]
    /\ request = [r \in Reqs |-> NoRequest]
    /\ trace = [r \in Reqs |-> <<>>]
    /\ ops = [r \in Reqs |-> <<>>]
    /\ fnPc = "idle"
    /\ fnArg = Null
    /\ fnRes = Null

Next ==
    \E r \in Reqs :
        \/ PostHandler(r)
        \/ \E i \in 1..Len(ops[r]) : StoreFind(r, i)
        \/ \E i \in 1..Len(ops[r]) : StoreInsert(r, i)
        \/ BulkReturn(r)
        \/ BulkError(r)

Spec == Init /\ [][Next]_vars

\* The event loop runs the continuation of an await whose promise has
\* settled, so the return from a bulk write whose operations are all
\* finished is weakly fair.  Nothing obliges the storage to answer or the
\* driver to give up: mongoose.connect sets serverSelectionTimeoutMS only,
\* which bounds the choice of a server, and neither the handler nor the
\* connection sets a socket or operation timeout; the steps of the
\* collection and the rejection of the bulk write carry no fairness.
FairSpec == Spec /\ \A r \in Reqs : WF_vars(BulkReturn(r))

\* The same service, receiving the deliveries whose messages are not all
\* written.
PostBatch(r) == Receive(r, BatchDeliveries)

NextBatch ==
    \E r \in Reqs :
        \/ PostBatch(r)
        \/ \E i \in 1..Len(ops[r]) : StoreFind(r, i)
        \/ \E i \in 1..Len(ops[r]) : StoreInsert(r, i)
        \/ BulkReturn(r)
        \/ BulkError(r)

SpecBatch == Init /\ [][NextBatch]_vars

\* The same service, receiving envelopes that repeat an id.
PostDup(r) == Receive(r, DupDeliveries)

NextDup ==
    \E r \in Reqs :
        \/ PostDup(r)
        \/ \E i \in 1..Len(ops[r]) : StoreFind(r, i)
        \/ \E i \in 1..Len(ops[r]) : StoreInsert(r, i)
        \/ BulkReturn(r)
        \/ BulkError(r)

SpecDup == Init /\ [][NextDup]_vars

(***************************************************************************)
(* Properties of the POST handler and the collection                       *)
(***************************************************************************)
Terminal == {"rejected", "unhandled", "extract_failed", "no_messages", "nothing_to_write",
             "persisted", "persist_failed"}
Delivered == {r \in Reqs : pc[r] # "idle"}
OpsIdx == UNION {{<<r, i>> : i \in 1..Len(ops[r])} : r \in Reqs}
OpAt(ri) == ops[ri[1]][ri[2]]

\* ids of the messages of an envelope that extraction yields and that pass the filter
IdsOf(env) ==
    LET res == extractInboundMessages(env, 1)
    IN  {res.out[n].wa_message_id : n \in {k \in 1..Len(res.out) : HasId(res.out[k])}}
ValidEnvelopes == {EnvScenario, EnvChanged}

\* every request made so far delivered envelope env, passed verification and
\* has finished
AllDelivered(env) ==
    /\ Delivered # {}
    /\ \A r \in Delivered :
          /\ request[r] = env
          /\ pc[r] \in Terminal \ {"rejected", "unhandled"}

\* C1: after N >= 1 deliveries of a valid envelope E have all finished, the
\* store holds exactly one record for each message id of E for which an
\* upsert succeeded, and the fields of that record are those written by the
\* delivery whose upsert inserted it.
C1_IdempotentDelivery ==
    \A env \in ValidEnvelopes :
        AllDelivered(env) =>
            \A id \in IdsOf(env) :
                /\ Cardinality(Matching(store, id)) <= 1
                /\ \A ri \in OpsIdx :
                      (OpAt(ri).filter = id /\ OpAt(ri).st = "inserted") =>
                          Matching(store, id) = {NewDoc(OpAt(ri), ri)}

\* C2: once a record exists in the store, no later request changes any of
\* its fields or removes it.
C2_WriteOnce == [][\A d \in store : d \in store']_vars

\* C3: no two stored records have the same message id.
C3_UniqueMessageId ==
    \A d1 \in store : \A d2 \in store :
        d1.wa_message_id = d2.wa_message_id => d1 = d2

\* two requests raced on one id: one upsert inserted it, the other one found
\* no match and was then refused by the unique index
C3_RaceLost ==
    \E ri \in OpsIdx : \E rj \in OpsIdx :
        /\ ri[1] # rj[1]
        /\ OpAt(ri).filter = OpAt(rj).filter
        /\ OpAt(ri).st = "inserted"
        /\ OpAt(rj).st = "failed"

IndexOf(tr, e) == {n \in 1..Len(tr) : tr[n] = e}

\* C4: in every request the 200 response precedes the start of extraction
\* and the call of the bulk write, and no write exists for a request that
\* was not acknowledged.
C4_AckBeforeProcess ==
    \A r \in Reqs :
        /\ \A n \in IndexOf(trace[r], "extract") \cup IndexOf(trace[r], "bulkWrite") :
              \E m \in IndexOf(trace[r], "resp200") : m < n
        /\ Len(ops[r]) > 0 => IndexOf(trace[r], "resp200") # {}

\* a request has been acknowledged, has extracted and has its bulk write in flight
C4_WritingAfterAck ==
    \E r \in Reqs :
        /\ pc[r] = "writing"
        /\ trace[r] = <<"resp200", "extract", "bulkWrite">>
        /\ \E i \in 1..Len(ops[r]) : ops[r][i].st = "inserting"

\* C5: a request answered with 403 has that response as its only step: no
\* extraction, no write, no log record; the step that rejects it leaves the
\* store unchanged and the request stays rejected.
C5_RejectedNoEffect ==
    [][\A r \in Reqs :
          /\ IndexOf(trace'[r], "resp403") # {} =>
                /\ trace'[r] = <<"resp403">>
                /\ ops'[r] = <<>>
                /\ pc'[r] = "rejected"
          /\ (IndexOf(trace[r], "resp403") = {} /\ IndexOf(trace'[r], "resp403") # {}) =>
                store' = store]_vars

\* a request was rejected while the store holds records of another one
C5_RejectedBesideStored ==
    \E r \in Reqs : pc[r] = "rejected" /\ store # {}

IsResponse(e) == e \in {"resp200", "resp403", "resp500"}

\* C6: every verified request has exactly one response, the 200, whatever
\* extraction and persistence do; when extraction or the bulk write throws,
\* the exception is caught and logged once and does not escape the handler.
C6_FailureContained ==
    \A r \in Reqs :
        /\ pc[r] # "unhandled"
        /\ pc[r] \notin {"idle", "rejected"} =>
              SelectSeq(trace[r], IsResponse) = <<"resp200">>
        /\ pc[r] \in {"extract_failed", "persist_failed"} =>
              /\ trace[r][Len(trace[r])] = "log_error"
              /\ Cardinality(IndexOf(trace[r], "log_error")) = 1

\* one request failed in extraction and another one in the middle of its
\* bulk write
C6_BothFailuresSeen ==
    \E r1 \in Reqs : \E r2 \in Reqs :
        /\ pc[r1] = "extract_failed"
        /\ pc[r2] = "persist_failed"
        /\ \E i \in 1..Len(ops[r2]) : ops[r2][i].st = "inserted"
        /\ \E i \in 1..Len(ops[r2]) : ops[r2][i].st = "abandoned"

(***************************************************************************)
(* Single calls of verifyMetaSignature                                     *)
(***************************************************************************)
VerifySecrets == {Undefined, Null, Str(<<>>), ProviderSecret, Str(<<113>>)}
VerifyBodies == {Undefined, Buffer(<<>>), Buffer(<<1>>), Buffer(<<2, 3>>)}

\* upper case of a character code
Upper(c) == IF c >= 97 /\ c <= 122 THEN c - 32 ELSE c

\* the value the header has to have for secret sec and raw body b
ExpectedSig(sec, b) ==
    SigPrefix \o HmacSha256Hex(IF Truthy(sec) THEN sec.v ELSE <<>>, Or(b, Buffer(<<>>)).v)

\* header values around the correct value e: absent, empty, e itself, every
\* proper prefix of e, e extended, e with one character replaced (by an
\* ASCII and by a non-ASCII character), the digest without its prefix, e in
\* upper case, and a value of other characters but the same number of bytes
HeaderValues(e) ==
    {Undefined, Str(<<>>), Str(e), Str(e \o <<48>>), Str(SubSeq(e, Len(SigPrefix) + 1, Len(e))),
     Str([i \in 1..Len(e) |-> Upper(e[i])])}
        \cup {Str(SubSeq(e, 1, n)) : n \in 1..(Len(e) - 1)}
        \cup {Str([e EXCEPT ![i] = IF e[i] = 120 THEN 121 ELSE 120]) : i \in 1..Len(e)}
        \cup {Str([e EXCEPT ![i] = 233]) : i \in 1..Len(e)}
        \cup {Str(SubSeq(e, 1, Len(e) - 2) \o <<233>>)}

VerifyInputs ==
    UNION {UNION {{[req |-> [sig |-> h, rawBody |-> b], appSecret |-> sec]
                      : h \in HeaderValues(ExpectedSig(sec, b)) \cup HeaderValues(ExpectedSig(ProviderSecret, Buffer(<<1>>)))}
                  : b \in VerifyBodies} : sec \in VerifySecrets}

ServiceIdle ==
    /\ metaAppSecret = Str(<<>>)
    /\ store = {}
    /\ clock = 1
    /\ pc = [r \in Reqs |-> "idle"]
    /\ request = [r \in Reqs |-> NoRequest]
    /\ trace = [r \in Reqs |-> <<>>]
    /\ ops = [r \in Reqs |-> <<>>]

InitVerify ==
    /\ ServiceIdle
    /\ fnPc = "ready"
    /\ fnArg \in VerifyInputs
    /\ fnRes = Null

CallVerify ==
    /\ fnPc = "ready"
    /\ fnRes' = verifyMetaSignature(fnArg.req, fnArg.appSecret)
    /\ fnPc' = "returned"
    /\ UNCHANGED <<fnArg, svcVars>>

SpecVerify == InitVerify /\ [][CallVerify]_vars

(***************************************************************************)
(* Single calls of extractInboundMessages                                  *)
(***************************************************************************)
\* Largest number of entries, changes and messages, taken together, of an
\* envelope built for a call
MaxNodes == 6

\* an object literal; properties whose value is undefined are left out
ObjOf(f) == Obj([k \in {x \in DOMAIN f : f[x].t # "undefined"} |-> f[k]])

\* Shapes of envelopes whose entry, changes and messages are arrays or
\* absent.  An envelope and an entry are a list that may be absent (has);
\* in a change, msgs is the number of messages (-1: no messages property)
\* and meta tells whether the change has metadata with a phone_number_id
\* ("id"), with an empty one ("empty") or no metadata ("none").
NoList == [has |-> FALSE, list |-> <<>>]
EmptyList == [has |-> TRUE, list |-> <<>>]
NewChangeShapes ==
    {[value |-> FALSE, meta |-> "none", msgs |-> -1]}
        \cup [value : {TRUE}, meta : {"none", "id", "empty"}, msgs : {-1, 0}]

RECURSIVE SumOf(_)
SumOf(ns) == IF Len(ns) = 0 THEN 0 ELSE Head(ns) + SumOf(Tail(ns))
ChangeNodes(c) == 1 + (IF c.msgs > 0 THEN c.msgs ELSE 0)
EntryNodes(e) == 1 + SumOf([j \in 1..Len(e.list) |-> ChangeNodes(e.list[j])])
Nodes(sh) == SumOf([i \in 1..Len(sh.list) |-> EntryNodes(sh.list[i])])

\* The envelope of a shape.  Message ids and phone number ids name the
\* position (entry i, change j, message k) they are at.
PosName(prefix, ijk) ==
    prefix \o ToString(ijk[1]) \o ToString(ijk[2]) \o ToString(ijk[3])
MsgAt(i, j, k) ==
    Obj([id |-> Str(PosName("m", <<i, j, k>>)), from |-> Str("77001"),
         timestamp |-> Str("5"), type |-> Str("text"), text |-> Obj([body |-> Str("hi")])])
ChangeOf(sh, i, j) ==
    IF ~sh.value THEN EmptyObj
    ELSE Obj([value |-> ObjOf(
            [metadata |-> CASE sh.meta = "none" -> Undefined
                            [] sh.meta = "id" -> Obj([phone_number_id |-> Str(PosName("P", <<i, j, 0>>))])
                            [] sh.meta = "empty" -> Obj([phone_number_id |-> Str("")]),
             messages |-> IF sh.msgs < 0 THEN Undefined
                          ELSE Arr([k \in 1..sh.msgs |-> MsgAt(i, j, k)])])])
EntryOf(sh, i) ==
    ObjOf([changes |-> IF ~sh.has THEN Undefined
                       ELSE Arr([j \in 1..Len(sh.list) |-> ChangeOf(sh.list[j], i, j)])])
EnvelopeOf(sh) ==
    ObjOf([entry |-> IF ~sh.has THEN Undefined
                     ELSE Arr([i \in 1..Len(sh.list) |-> EntryOf(sh.list[i], i)])])

\* Malformed envelopes: a value that is not what the walk expects, put at
\* one level of an envelope that also holds the valid messages m111 (before
\* it) and m311 (after it).
BadValues == {Null, Num(0), Num(5), Str(""), Str("ab"), EmptyObj, Obj([id |-> Num(5)]), EmptyArr}
GoodChange(i) == ChangeOf([value |-> TRUE, meta |-> "id", msgs |-> 1], i, 1)
GoodEntry(i) == Obj([changes |-> Arr(<<GoodChange(i)>>)])
Around(entry2) == Obj([entry |-> Arr(<<GoodEntry(1), entry2, GoodEntry(3)>>)])
MalformedAt(level, bad) ==
    CASE level = "body" -> bad
      [] level = "entry" -> Obj([entry |-> bad])
      [] level = "entryElem" -> Around(bad)
      [] level = "changes" -> Around(Obj([changes |-> bad]))
      [] level = "changeElem" -> Around(Obj([changes |-> Arr(<<bad, GoodChange(2)>>)]))
      [] level = "value" -> Around(Obj([changes |-> Arr(<<Obj([value |-> bad]), GoodChange(2)>>)]))
      [] level = "metadata" ->
            Around(Obj([changes |-> Arr(<<Obj([value |->
                Obj([metadata |-> bad, messages |-> Arr(<<MsgAt(2, 1, 1)>>)])])>>)]))
      [] level = "messages" ->
            Around(Obj([changes |-> Arr(<<Obj([value |-> Obj([messages |-> bad])]), GoodChange(2)>>)]))
      [] level = "msgElem" ->
            Around(Obj([changes |-> Arr(<<Obj([value |->
                Obj([messages |-> Arr(<<MsgAt(2, 1, 1), bad, MsgAt(2, 1, 3)>>)])])>>)]))
Levels == {"body", "entry", "entryElem", "changes", "changeElem", "value", "metadata",
           "messages", "msgElem"}

\* The argument of a call is an envelope of one of two families: a
\* malformed one, or one built entry by entry, change by change and message
\* by message before the call.
MalformedInputs ==
    {[family |-> "malformed", level |-> l, bad |-> b, env |-> MalformedAt(l, b)]
        : l \in Levels, b \in BadValues}
Built(sh) == [family |-> "sequences", shape |-> sh, env |-> EnvelopeOf(sh)]

\* Messages of every type, each with or without the nested properties the
\* text is read from; a nested value may be the empty string.
Types == {Undefined, Str("text"), Str("button"), Str("interactive"), Str("image")}
TextProps == {Undefined, EmptyObj, Obj([body |-> Str("")]), Obj([body |-> Str("hi")])}
ButtonProps == {Undefined, Obj([text |-> Str("")]), Obj([text |-> Str("Yes")])}
InteractiveProps == {Undefined, Obj([type |-> Str("button_reply")])}
TypedMessage(t, tx, bt, it) ==
    ObjOf([id |-> Str("m1"), from |-> Str("77001"), timestamp |-> Str("5"),
           type |-> t, text |-> tx, button |-> bt, interactive |-> it])
TypedInputs ==
    {[family |-> "typed", msg |-> TypedMessage(t, tx, bt, it),
      env |-> Envelope("CH1", <<TypedMessage(t, tx, bt, it)>>)]
        : t \in Types, tx \in TextProps, bt \in ButtonProps, it \in InteractiveProps}
ScenarioInput == [family |-> "scenario", env |-> EnvScenario]

InitExtract ==
    /\ ServiceIdle
    /\ fnPc = "ready"
    /\ fnArg \in MalformedInputs \cup {Built(NoList), Built(EmptyList)}
                \cup TypedInputs \cup {ScenarioInput}
    /\ fnRes = Null

Building == fnPc = "ready" /\ fnArg.family = "sequences" /\ Nodes(fnArg.shape) < MaxNodes

\* an entry, without a changes property or with an empty one, is appended
AddEntry ==
    /\ Building
    /\ fnArg.shape.has
    /\ \E e \in {NoList, EmptyList} :
          fnArg' = Built([fnArg.shape EXCEPT !.list = Append(@, e)])
    /\ UNCHANGED <<fnPc, fnRes, svcVars>>

\* a change is appended to the last entry
AddChange ==
    /\ Building
    /\ Len(fnArg.shape.list) > 0
    /\ LET i == Len(fnArg.shape.list)
       IN  /\ fnArg.shape.list[i].has
           /\ \E c \in NewChangeShapes :
                 fnArg' = Built([fnArg.shape EXCEPT !.list[i].list = Append(@, c)])
    /\ UNCHANGED <<fnPc, fnRes, svcVars>>

\* a message is appended to the last change of the last entry
AddMessage ==
    /\ Building
    /\ Len(fnArg.shape.list) > 0
    /\ LET i == Len(fnArg.shape.list)
           j == Len(fnArg.shape.list[i].list)
       IN  /\ j > 0
           /\ fnArg.shape.list[i].list[j].msgs >= 0
           /\ fnArg' = Built([fnArg.shape EXCEPT !.list[i].list[j].msgs = @ + 1])
    /\ UNCHANGED <<fnPc, fnRes, svcVars>>

CallExtract ==
    /\ fnPc = "ready"
    /\ fnRes' = extractInboundMessages(fnArg.env, clock)
    /\ fnPc' = "returned"
    /\ UNCHANGED <<fnArg, svcVars>>

NextExtract == AddEntry \/ AddChange \/ AddMessage \/ CallExtract

SpecExtract == InitExtract /\ [][NextExtract]_vars

(***************************************************************************)
(* Properties of verifyMetaSignature                                       *)
(***************************************************************************)
SecretConfigured == Truthy(fnArg.appSecret)
HeaderIsExpected ==
    /\ fnArg.req.sig.t = "string"
    /\ fnArg.req.sig.v = ExpectedSig(fnArg.appSecret, fnArg.req.rawBody)

\* C7: with a configured secret, verifyMetaSignature returns true if and
\* only if the header is present and is exactly "sha256=" followed by the hex
\* HMAC of the raw body under the secret; every other header value (absent,
\* shorter, longer, differing in one character) gives false; it never throws.
C7_SignatureIffExact ==
    (fnPc = "returned" /\ SecretConfigured) =>
        /\ ~fnRes.threw
        /\ fnRes.val <=> HeaderIsExpected

\* a header of the right length that differs from the correct value in its
\* last character only has been rejected
C7_NearMissRejected ==
    /\ fnPc = "returned"
    /\ SecretConfigured
    /\ fnArg.req.sig.t = "string"
    /\ LET e == ExpectedSig(fnArg.appSecret, fnArg.req.rawBody)
           h == fnArg.req.sig.v
       IN  /\ Len(h) = Len(e)
           /\ SubSeq(h, 1, Len(e) - 1) = SubSeq(e, 1, Len(e) - 1)
           /\ h[Len(e)] # e[Len(e)]
    /\ fnRes = Ret(FALSE)

\* C8: without a configured secret (null, undefined or the empty string),
\* verifyMetaSignature returns true for every body and every header value,
\* an absent header included.
C8_BypassWithoutSecret ==
    (fnPc = "returned" /\ fnArg.appSecret \in {Undefined, Null, Str(<<>>)}) =>
        fnRes = Ret(TRUE)

\* the empty secret and no header: accepted
C8_BypassAbsentHeader ==
    /\ fnPc = "returned"
    /\ fnArg.appSecret = Str(<<>>)
    /\ fnArg.req.sig = Undefined
    /\ fnRes = Ret(TRUE)

(***************************************************************************)
(* Properties of extractInboundMessages                                    *)
(***************************************************************************)
\* The arrays of an envelope of the family "sequences", read off the
\* argument: an absent property is the empty sequence.
ArrayAt(o, k) == IF k \in DOMAIN o.v THEN o.v[k].v ELSE <<>>
EntriesIn(env) == ArrayAt(env, "entry")
ChangesIn(env, i) == ArrayAt(EntriesIn(env)[i], "changes")
ValueIn(env, i, j) ==
    LET c == ChangesIn(env, i)[j]
    IN  IF "value" \in DOMAIN c.v THEN c.v.value ELSE EmptyObj
MessagesIn(env, i, j) == ArrayAt(ValueIn(env, i, j), "messages")

\* positions <<entry, change, message>> of the messages present
Positions(env) ==
    UNION {UNION {{<<i, j, k>> : k \in 1..Len(MessagesIn(env, i, j))}
                     : j \in 1..Len(ChangesIn(env, i))}
              : i \in 1..Len(EntriesIn(env))}
Before(p, q) ==
    \/ p[1] < q[1]
    \/ p[1] = q[1] /\ p[2] < q[2]
    \/ p[1] = q[1] /\ p[2] = q[2] /\ p[3] < q[3]
Rank(env, p) == Cardinality({q \in Positions(env) : Before(q, p)}) + 1

HasPhoneNumberId(env, i, j) ==
    /\ "metadata" \in DOMAIN ValueIn(env, i, j).v
    /\ "phone_number_id" \in DOMAIN ValueIn(env, i, j).v.metadata.v
PhoneNumberIdIn(env, i, j) == ValueIn(env, i, j).v.metadata.v.phone_number_id

\* one record per message present, in entry-change-message order, no error;
\* idOf(env, i, j) is the phone_number_id each record has to carry
FlattenedInOrder(env, res, idOf(_, _, _)) ==
    /\ ~res.threw
    /\ Len(res.out) = Cardinality(Positions(env))
    /\ \A p \in Positions(env) :
          /\ res.out[Rank(env, p)].raw_message = MessagesIn(env, p[1], p[2])[p[3]]
          /\ res.out[Rank(env, p)].phone_number_id = idOf(env, p[1], p[2])

IdOrNullIfAbsent(env, i, j) ==
    IF HasPhoneNumberId(env, i, j) THEN PhoneNumberIdIn(env, i, j) ELSE Null
IdOrNullIfAbsentOrEmpty(env, i, j) ==
    IF HasPhoneNumberId(env, i, j) /\ PhoneNumberIdIn(env, i, j) # Str("")
    THEN PhoneNumberIdIn(env, i, j) ELSE Null

\* C9 as stated: for an envelope whose entries, changes and messages are
\* sequences, absent or empty at any level, the result is one record per
\* message present, in entry-then-change-then-message order, each with the
\* phone_number_id of its own change's metadata, null if absent; no error.
C9_AsStated ==
    (fnPc = "returned" /\ fnArg.family = "sequences") =>
        FlattenedInOrder(fnArg.env, fnRes, IdOrNullIfAbsent)

\* C9 amended: the same, with null also for an empty phone_number_id.
C9_FlattenInOrder ==
    (fnPc = "returned" /\ fnArg.family = "sequences") =>
        FlattenedInOrder(fnArg.env, fnRes, IdOrNullIfAbsentOrEmpty)

\* an envelope whose first entry has no changes and whose second entry has
\* two changes with messages has been flattened to three records or more
C9_MixedLevelsFlattened ==
    /\ fnPc = "returned"
    /\ fnArg.family = "sequences"
    /\ Len(EntriesIn(fnArg.env)) = 2
    /\ "changes" \notin DOMAIN EntriesIn(fnArg.env)[1].v
    /\ Len(ChangesIn(fnArg.env, 2)) = 2
    /\ Len(MessagesIn(fnArg.env, 2, 1)) >= 1
    /\ Len(MessagesIn(fnArg.env, 2, 2)) >= 1
    /\ ~fnRes.threw
    /\ Len(fnRes.out) >= 2

\* ids of the records returned
OutIds(res) == {res.out[n].wa_message_id : n \in 1..Len(res.out)}

\* C10: for every envelope value -- entry, changes or messages holding a
\* value that is not a sequence, an element that is null or of the wrong
\* shape -- extractInboundMessages returns without throwing and the valid
\* sibling messages of the malformed element are returned.
C10_NeverThrows ==
    (fnPc = "returned" /\ fnArg.family = "malformed") =>
        /\ ~fnRes.threw
        /\ fnArg.level \notin {"body", "entry"} =>
              {Str("m111"), Str("m311")} \subseteq OutIds(fnRes)

(***************************************************************************)
(* The GET handler beside the POST handler                                 *)
(***************************************************************************)
\* env.VERIFY_TOKEN; the process exits at start when it is not set
verifyToken == Str("vt")

\* res.send(x): a string is the body, undefined gives an empty body
Send(x) == IF x.t = "undefined" THEN Str("") ELSE x

\* the token alone decides
GetHandlerTokenOnly(query) ==
    IF StrictEq(Get(query, "hub.verify_token"), verifyToken)
    THEN [status |-> 200, body |-> Send(Get(query, "hub.challenge"))]
    ELSE [status |-> 403, body |-> Str("Forbidden")]

\* router.get("/", ...): the response to a request with this query
GetHandler(query) ==
    LET mode == Get(query, "hub.mode")
        token == Get(query, "hub.verify_token")
        challenge == Get(query, "hub.challenge")
    IN  IF StrictEq(mode, Str("subscribe")) /\ StrictEq(token, verifyToken)
        THEN [status |-> 200, body |-> Send(challenge)]
        ELSE [status |-> 403, body |-> Str("Forbidden")]

\* query strings: each parameter absent or present with one of some values
Modes == {Undefined, Str("subscribe"), Str("unsubscribe")}
Tokens == {Undefined, verifyToken, Str("wrong"), Str("")}
Challenges == {Undefined, Str("c1")}
QueryOf(mode, token, challenge) ==
    ObjOf(("hub.mode" :> mode) @@ ("hub.verify_token" :> token)
            @@ ("hub.challenge" :> challenge))
GetInputs == {QueryOf(m, t, c) : m \in Modes, t \in Tokens, c \in Challenges}

InitGet ==
    /\ ServiceIdle
    /\ fnPc = "ready"
    /\ fnArg \in GetInputs
    /\ fnRes = Null

CallGet ==
    /\ fnPc = "ready"
    /\ fnRes' = GetHandler(fnArg)
    /\ fnPc' = "returned"
    /\ UNCHANGED <<fnArg, svcVars>>

\* POST requests that deliver m1 are handled before and after the GET
PostOne(r) == Receive(r, {[body |-> EnvChanged, rawBody |-> Buffer(<<2>>)]})

NextGet ==
    \/ CallGet
    \/ \E r \in Reqs :
          \/ PostOne(r)
          \/ \E i \in 1..Len(ops[r]) : StoreFind(r, i)
          \/ \E i \in 1..Len(ops[r]) : StoreInsert(r, i)
          \/ BulkReturn(r)
          \/ BulkError(r)

SpecGet == InitGet /\ [][NextGet]_vars

\* the GET request asks to subscribe with the configured token
Subscribing(q) ==
    /\ "hub.mode" \in DOMAIN q.v
    /\ q.v["hub.mode"] = Str("subscribe")
    /\ "hub.verify_token" \in DOMAIN q.v
    /\ q.v["hub.verify_token"] = verifyToken

\* C15: a GET request is answered with 200 and the challenge string
\* unchanged if and only if its mode is "subscribe" and its token is the
\* configured verify token, with 403 otherwise, and it leaves the store
\* unchanged.
C15_Challenge ==
    [][(fnPc = "ready" /\ fnPc' = "returned") =>
          /\ store' = store
          /\ fnRes'.status = (IF Subscribing(fnArg) THEN 200 ELSE 403)
          /\ (Subscribing(fnArg) /\ "hub.challenge" \in DOMAIN fnArg.v) =>
                fnRes'.body = fnArg.v["hub.challenge"]]_vars

\* a subscription request was answered with its challenge while the
\* collection held a record
C15_ChallengeEchoed ==
    /\ fnPc = "returned"
    /\ fnRes = [status |-> 200, body |-> Str("c1")]
    /\ store # {}

(***************************************************************************)
(* Single calls of hashPhone                                               *)
(***************************************************************************)
\* phone: string | null, salt: string
Phones == {Null, Str(""), Str("7"), Str("77001"), Str("77002")}
Salts == {Str(""), Str("pepper"), Str("pepper7"), Str("salt")}
HashInputs == [phone : Phones, salt : Salts, other : Salts]

InitHash ==
    /\ ServiceIdle
    /\ fnPc = "ready"
    /\ fnArg \in HashInputs
    /\ fnRes = Null

\* the phone is hashed twice with one salt and once with the other
CallHash ==
    /\ fnPc = "ready"
    /\ fnRes' = [out |-> hashPhone(fnArg.phone, fnArg.salt),
                 again |-> hashPhone(fnArg.phone, fnArg.salt),
                 resalted |-> hashPhone(fnArg.phone, fnArg.other)]
    /\ fnPc' = "returned"
    /\ UNCHANGED <<fnArg, svcVars>>

SpecHash == InitHash /\ [][CallHash]_vars

NoPhone(phone) == phone \in {Null, Str("")}
PlainConcat(salt, phone) == salt.v \o phone.v
ColonConcat(salt, phone) == salt.v \o ":" \o phone.v

\* what the claim says of a call whose digest input is hashed(salt, phone)
PrivacyHash(hashed(_, _)) ==
    fnPc = "returned" =>
        /\ fnRes.out = Null <=> NoPhone(fnArg.phone)
        /\ ~NoPhone(fnArg.phone) =>
              /\ fnRes.out = Sha256Hex(hashed(fnArg.salt, fnArg.phone))
              /\ fnArg.salt # fnArg.other => fnRes.out # fnRes.resalted
        /\ fnRes.out = fnRes.again

\* C16 as stated: hashPhone returns null exactly when the phone is null or
\* empty, otherwise the hex SHA-256 digest of the concatenation of salt and
\* phone; equal inputs give equal outputs and, for one phone, two different
\* salts give different outputs.
C16_AsStated == PrivacyHash(PlainConcat)

\* C16 amended: the same, the digest being that of salt, ":" and phone
\* concatenated.
C16_PrivacyHash == PrivacyHash(ColonConcat)

\* a phone was hashed with two different salts, to two different digests
C16_Resalted ==
    /\ fnPc = "returned"
    /\ fnArg.phone = Str("77001")
    /\ fnArg.salt = Str("pepper")
    /\ fnArg.other = Str("salt")
    /\ fnRes.out \notin {Null, fnRes.resalted}

(***************************************************************************)
(* Claims about the derived text                                           *)
(***************************************************************************)
\* the value at m[prop][key], null when there is none
Nested(m, prop, key) ==
    IF prop \in DOMAIN m.v /\ m.v[prop].t = "object" /\ key \in DOMAIN m.v[prop].v
    THEN m.v[prop].v[key] ELSE Null
HasType(m, name) == "type" \in DOMAIN m.v /\ m.v.type = Str(name)
NestedByType(m) ==
    IF HasType(m, "text") THEN Nested(m, "text", "body")
    ELSE IF HasType(m, "button") THEN Nested(m, "button", "text")
    ELSE IF HasType(m, "interactive") THEN Nested(m, "interactive", "type")
    ELSE Null
NestedOrNullIfEmpty(m) == IF NestedByType(m) = Str("") THEN Null ELSE NestedByType(m)
Summary(rec) == [id |-> rec.wa_message_id, type |-> rec.msg_type, text |-> rec.text]

\* what the claim says of a call: the record of a typed message carries the
\* expected text and the message itself; the scenario yields m1 and m2
TextDerived(expected(_)) ==
    /\ (fnPc = "returned" /\ fnArg.family = "typed") =>
          /\ ~fnRes.threw
          /\ Len(fnRes.out) = 1
          /\ fnRes.out[1].text = expected(fnArg.msg)
          /\ fnRes.out[1].raw_message = fnArg.msg
    /\ (fnPc = "returned" /\ fnArg.family = "scenario") =>
          /\ ~fnRes.threw
          /\ [n \in 1..Len(fnRes.out) |-> Summary(fnRes.out[n])] =
                <<[id |-> Str("m1"), type |-> Str("text"), text |-> Str("hi")],
                  [id |-> Str("m2"), type |-> Str("interactive"),
                   text |-> Str("button_reply")]>>

\* C11 as stated: the text of a record is the nested body for type "text",
\* the nested button label for "button", the interactive sub-type name for
\* "interactive" and null for every other type; raw_message is the message
\* unchanged; the scenario yields {m1, text, hi}, {m2, interactive,
\* button_reply}.
C11_AsStated == TextDerived(NestedByType)

\* C11 amended: the same, with null also when the nested value of that
\* type is absent or the empty string.
C11_TextByType == TextDerived(NestedOrNullIfEmpty)

\* an interactive message that also has a text body got its sub-type name
C11_InteractiveBesideBody ==
    /\ fnPc = "returned"
    /\ fnArg.family = "typed"
    /\ HasType(fnArg.msg, "interactive")
    /\ Nested(fnArg.msg, "text", "body") = Str("hi")
    /\ fnRes.out[1].text = Str("button_reply")

(***************************************************************************)
(* Claims about the batch written for one envelope                         *)
(***************************************************************************)
\* the messages of a one-entry, one-change envelope, and the ids present
\* and not empty among them
MessagesOf(env) == MessagesIn(env, 1, 1)
PresentIds(env) ==
    {MessagesOf(env)[n].v.id : n \in {k \in 1..Len(MessagesOf(env)) :
        /\ "id" \in DOMAIN MessagesOf(env)[k].v
        /\ MessagesOf(env)[k].v.id # Str("")}}
BatchBodies == {d.body : d \in BatchDeliveries}
Acknowledged(r) == pc[r] \notin {"idle", "rejected", "unhandled"}
FiltersOf(r) == {ops[r][i].filter : i \in 1..Len(ops[r])}
IsStored(id) == \E d \in store : d.wa_message_id = id

\* C12: a message without id (absent or empty) never produces a write
\* operation or a stored record, and the messages with an id of the same
\* envelope are written.
C12_NoWriteWithoutId ==
    /\ \A d \in store : d.wa_message_id \notin {Undefined, Null, Str("")}
    /\ \A r \in Reqs :
          (Acknowledged(r) /\ request[r] # EnvEmpty) =>
              /\ FiltersOf(r) = PresentIds(request[r])
              /\ \A m \in PresentIds(request[r]) :
                    Cardinality({i \in 1..Len(ops[r]) : ops[r][i].filter = m}) = 1
    /\ \A r \in Reqs :
          (request[r] = EnvNoId /\ pc[r] = "persisted") => IsStored(Str("m3"))

\* the envelope with two id-less messages and m3 was written: m3 is stored
C12_SiblingStored ==
    \E r \in Reqs :
        /\ request[r] = EnvNoId
        /\ pc[r] = "persisted"
        /\ Len(MessagesOf(request[r])) = 3
        /\ {d.wa_message_id : d \in store} = {Str("m3")}

\* the bulk write of request r has ended with every operation attempted
BatchEnded(r) ==
    /\ pc[r] \in {"persisted", "persist_failed"}
    /\ \A i \in 1..Len(ops[r]) : ops[r][i].st # "abandoned"
\* ids of the messages the storage layer rejects: b1 has no valid date
RejectedIds == {Str("b1")}

\* C13: when the write of one message of a batch fails -- its insert
\* conflicts with a concurrent insert of the same id, or the storage layer
\* rejects its record -- the other writes are still applied: once the batch
\* has ended, every other message with an id has a stored record.
C13_BatchIndependence ==
    \A r \in Reqs :
        BatchEnded(r) =>
            \A id \in PresentIds(request[r]) \ RejectedIds : IsStored(id)

\* a batch whose first record was rejected and whose second insert lost a
\* race has ended, and its third message is stored by it
C13_TwoFailuresOneStored ==
    \E r \in Reqs :
        /\ request[r] = EnvBadRecord
        /\ pc[r] = "persist_failed"
        /\ [i \in 1..Len(ops[r]) |-> ops[r][i].st] = <<"rejected", "failed", "inserted">>
        /\ IsStored(Str("m4"))
        /\ ~IsStored(Str("b1"))

(***************************************************************************)
(* Claims about the sender phone                                           *)
(***************************************************************************)
\* value v is p or holds p in an element or a property, at any depth
RECURSIVE Mentions(_, _)
Mentions(v, p) ==
    \/ v = p
    \/ v.t = "array" /\ \E i \in 1..Len(v.v) : Mentions(v.v[i], p)
    \/ v.t = "object" /\ \E k \in DOMAIN v.v : Mentions(v.v[k], p)
\* the sender phones of the messages delivered
SenderPhones == {Str("77001"), Str("77002")}
SchemaPaths == {"wa_message_id", "phone_number_id", "sender_phone_hash", "direction",
                "msg_type", "text", "ts", "raw_message"}

\* C14: no field of a stored record, the retained raw message included,
\* contains the raw sender phone number.
C14_NoRawPhoneStored ==
    \A d \in store : \A f \in SchemaPaths : \A p \in SenderPhones : ~Mentions(d[f], p)

IsInfoLog(e) == e \in {"log_info_no_messages", "log_info_saved"}
WrittenBy(r) == {d \in store : d._id[1] = r}

\* C17: when extraction yields no record the request ends with one info
\* log, without a storage write and without an error log; when every
\* record lacks an id, no storage write is issued either.
C17_EmptyEndsProcessing ==
    \A r \in Reqs :
        /\ (Acknowledged(r) /\ request[r] = EnvEmpty) =>
              /\ pc[r] = "no_messages"
              /\ trace[r] = <<"resp200", "extract", "log_info_no_messages">>
              /\ ops[r] = <<>>
              /\ WrittenBy(r) = {}
        /\ (Acknowledged(r) /\ request[r] = EnvAllNoId) =>
              /\ pc[r] = "nothing_to_write"
              /\ Len(SelectSeq(trace[r], IsInfoLog)) = 1
              /\ \A n \in 1..Len(trace[r]) : trace[r][n] \notin {"bulkWrite", "log_error"}
              /\ ops[r] = <<>>
              /\ WrittenBy(r) = {}

\* an empty body and an envelope without ids were both handled
C17_BothEmptyKinds ==
    \E r1 \in Reqs : \E r2 \in Reqs :
        /\ request[r1] = EnvEmpty /\ pc[r1] = "no_messages"
        /\ request[r2] = EnvAllNoId /\ pc[r2] = "nothing_to_write"

(***************************************************************************)
(* Claims about the end of a request                                       *)
(***************************************************************************)
BulkWrites(tr) == Cardinality({n \in 1..Len(tr) : tr[n] = "bulkWrite"})
InsertedBy(r) == {d._id : d \in WrittenBy(r)}

\* C18: a request issues at most one bulk write; once that has succeeded or
\* failed the request is terminal: it takes no further step, issues no
\* further write and inserts nothing more.
C18_NoRetry ==
    [][\A r \in Reqs :
          /\ BulkWrites(trace'[r]) <= 1
          /\ pc[r] \in Terminal =>
                /\ pc'[r] = pc[r]
                /\ trace'[r] = trace[r]
                /\ ops'[r] = ops[r]
                /\ InsertedBy(r)' = InsertedBy(r)]_vars

\* a request gave up a write that a later request then made
C18_LeftToRedelivery ==
    \E r \in Reqs : \E q \in Reqs :
        /\ pc[r] = "persist_failed"
        /\ BulkWrites(trace[r]) = 1
        /\ \E i \in 1..Len(ops[r]) :
              /\ ops[r][i].st = "abandoned"
              /\ \E d \in WrittenBy(q) : d.wa_message_id = ops[r][i].filter

\* C19: every acknowledged request eventually reaches a terminal state,
\* also when the storage never answers its bulk write: the call is then
\* abandoned as a failure of the batch.
C19_BoundedPersistence ==
    \A r \in Reqs : (pc[r] = "writing") ~> (pc[r] \in Terminal)

(***************************************************************************)
(* Claims about an id repeated inside one envelope                         *)
(***************************************************************************)
\* a request that delivered the envelope with d1 twice has persisted it
DupPersisted == \E r \in Reqs : request[r] = EnvDupIds /\ pc[r] = "persisted"
\* document d has the content of the n-th message of that envelope
HasContentOf(d, n) ==
    /\ d.raw_message = MessagesOf(EnvDupIds)[n]
    /\ d.text = MessagesOf(EnvDupIds)[n].v.text.v.body
    /\ d.msg_type = MessagesOf(EnvDupIds)[n].v.type

\* C20 as stated: when one envelope holds the same id twice with different
\* content, the bulk write creates exactly one record for the id, with the
\* fields of the message that comes first in the envelope, whatever order
\* the store applies the batch in.
C20_AsStated ==
    DupPersisted =>
        /\ Cardinality(Matching(store, Str("d1"))) = 1
        /\ \A d \in Matching(store, Str("d1")) : HasContentOf(d, 1)

\* C20 amended: exactly one record, with the fields of the message whose
\* write the store applied first, the one that inserted the record.
C20_FirstAppliedWins ==
    DupPersisted =>
        /\ Cardinality(Matching(store, Str("d1"))) = 1
        /\ \A d \in Matching(store, Str("d1")) :
              /\ OpAt(d._id).st = "inserted"
              /\ HasContentOf(d, d._id[2])
              /\ \A ri \in OpsIdx \ {d._id} : OpAt(ri).st # "inserted"

\* the store applied the second write first: the record has its content
C20_SecondApplied ==
    /\ DupPersisted
    /\ \E d \in store : HasContentOf(d, 2) /\ d.text = Str("second")

====
